---- MODULE Spec2Model ----
(***************************************************************************)
(* State-machine model of SyncGoTrueClient (gotrue/_sync/gotrue_client.py):*)
(* the session store, the session validator, the auth-state notifier, the  *)
(* refresh scheduler, the refresh protocol and the implicit-grant          *)
(* recoverer.                                                              *)
(*                                                                         *)
(* Every method of the client is a pure operator over a record c that      *)
(* holds the fields of `self` (plus the clock and an observation log), and *)
(* returns [c, exc, ret]: the fields after the call, the exception raised  *)
(* ("none" when the call returned) and the returned value.  An action of   *)
(* the state machine is one whole public call, one timer firing, or one    *)
(* response arriving at a timer callback that waits for the token          *)
(* exchange.                                                               *)
(*                                                                         *)
(* Time is counted in whole seconds: time() and round(time()) are read at  *)
(* whole-second instants, timer delays are kept in milliseconds.           *)
(***************************************************************************)
EXTENDS Integers, Sequences, FiniteSets, TLC

VARIABLES
    persist_session,        \* self._persist_session (fixed at construction)
    auto_refresh_token,     \* self._auto_refresh_token (fixed at construction)
    storage,                \* the item under self._storage_key in self._storage
    in_memory_session,      \* self._in_memory_session
    refresh_token_timer,    \* self._refresh_token_timer
    stray_timers,           \* Timers still pending that self no longer refers to
    network_retries,        \* self._network_retries
    state_change_emitters,  \* self._state_change_emitters, in insertion order
    now,                    \* time(), in seconds
    callback,               \* the timer callback that waits for its token exchange
    subscriptions,          \* the Subscription objects handed out so far
    last                    \* observation: the step just taken and its outcome

vars == <<persist_session, auto_refresh_token, storage, in_memory_session,
          refresh_token_timer, stray_timers, network_retries,
          state_change_emitters, now, callback, subscriptions, last>>

----------------------------------------------------------------------------
(* Program constants (supabase_auth/constants.py).                         *)

EXPIRY_MARGIN == 10

MAX_RETRIES == 10

RETRY_INTERVAL == 2

(* Bounds of the model.                                                    *)

\* The clock stops at MaxClock: time beyond this horizon is collapsed into
\* the instant MaxClock, at which every delay has elapsed.
MaxClock == 5

\* _network_retries is not counted beyond RetryCap (beyond RetryDeep, which
\* lies past MAX_RETRIES, where the retry chains are followed to their end).
RetryCap == 2

RetryDeep == 12

\* At most MaxSubs calls of on_auth_state_change.
MaxSubs == 2

----------------------------------------------------------------------------
(* Values.                                                                 *)

None == [kind |-> "None"]

NoExc == "none"

\* A Session; expires_at = 0 stands for a falsy expires_at (None or 0): the
\* code only ever tests `if expires_at`.
Session(at, rt, exp) ==
    [kind |-> "Session", access_token |-> at, refresh_token |-> rt, expires_at |-> exp]

IsSession(s) == s.kind = "Session"

Ok(c, ret) == [c |-> c, exc |-> NoExc, ret |-> ret]

Raise(c, e) == [c |-> c, exc |-> e, ret |-> None]

\* Timer delays: a number of milliseconds, or RETRY_INTERVAL ** exp, which is
\* kept symbolic because it does not fit a machine integer.
Ms(k) == [form |-> "ms", ms |-> k, base |-> 0, exp |-> 0]

Power(b, e) == [form |-> "power", ms |-> 0, base |-> b, exp |-> e]

RECURSIVE PowerLeq(_, _, _)
\* b ** e <= x, for b >= 2, computed without forming b ** e
PowerLeq(b, e, x) ==
    IF e = 0 THEN 1 <= x
    ELSE x >= b /\ PowerLeq(b, e - 1, x \div b)

\* value <= 0
NotPositive(value) == value.form = "ms" /\ value.ms <= 0

\* the delay `value` has elapsed after `ms` milliseconds
Elapsed(value, ms) ==
    IF value.form = "ms" THEN value.ms <= ms
    ELSE PowerLeq(value.base, value.exp, ms)

----------------------------------------------------------------------------
(* Timer collaborator: start(delay_ms, callback), cancel(); the callback   *)
(* runs at most once, not before the delay has elapsed, never after        *)
(* cancel().                                                               *)

\* Timer(value, function).start() at `time`: `due` is the instant (in ms, or
\* a power that lies beyond every instant of the clock) before which the
\* callback does not run
TimerStart(value, function, time) ==
    [kind |-> "Timer", function |-> function, alive |-> TRUE,
     due |-> IF value.form = "ms" THEN Ms(time * 1000 + value.ms) ELSE value]

\* a Timer whose callback has been started
Fired(t) == [t EXCEPT !.alive = FALSE, !.due = Ms(0)]

\* started, not yet fired, not cancelled
Pending(t) == t.kind = "Timer" /\ t.alive

\* the delay of a pending timer has elapsed (or the clock is at the horizon)
Due(t, time) ==
    /\ Pending(t)
    /\ \/ Elapsed(t.due, time * 1000)
       \/ time = MaxClock

----------------------------------------------------------------------------
(* Stored text.  The item under the storage key is None, a text that is    *)
(* not JSON ("empty", "malformed"), or a JSON object of which access_token,*)
(* refresh_token ("" also stands for a missing key) and expires_at are     *)
(* modelled; `rest` tells whether the other fields of a Session are there. *)
(* int() leaves an integer as it is, reads a numeral, cuts the fraction of *)
(* a float, and raises on a word (ValueError) and on an array (TypeError). *)

Text(t) == [kind |-> "text", text |-> t]

JInt(n) == [t |-> "int", n |-> n]

\* a JSON string: the decimal numeral of n, or a word that is no numeral
JNumeral(n) == [t |-> "numeral", n |-> n]

JWord == [t |-> "word", n |-> 0]

JNull == [t |-> "null", n |-> 0]

\* a JSON number with a fractional part, n + 0.5
JFloat(n) == [t |-> "float", n |-> n]

\* a JSON array that is not empty
JList == [t |-> "list", n |-> 0]

Json(at, rt, exp, rest) ==
    [kind |-> "json", access_token |-> at, refresh_token |-> rt,
     expires_at |-> exp, rest |-> rest]

\* the expires_at of the session is not written
SessionJsonNoExpiry(session) ==
    Json(session.access_token, session.refresh_token, JNull, TRUE)

\* session.json()
SessionJson(session) ==
    Json(session.access_token, session.refresh_token,
         IF session.expires_at = 0 THEN JNull ELSE JInt(session.expires_at),
         TRUE)

\* `not data.get("expires_at")`
JFalsy(v) == v.t = "null" \/ (v.t = "int" /\ v.n = 0)

_get_valid_session(raw_session) ==
    IF raw_session = None \/ raw_session = Text("empty")
    THEN [exc |-> NoExc, ret |-> None]
    ELSE IF raw_session.kind = "text"
    THEN [exc |-> "JSONDecodeError", ret |-> None]       \* loads(raw_session)
    ELSE IF raw_session.access_token = "" THEN [exc |-> NoExc, ret |-> None]
    ELSE IF raw_session.refresh_token = "" THEN [exc |-> NoExc, ret |-> None]
    ELSE IF JFalsy(raw_session.expires_at) THEN [exc |-> NoExc, ret |-> None]
    ELSE IF raw_session.expires_at.t = "word"
    THEN [exc |-> NoExc, ret |-> None]                   \* int() raises ValueError
    ELSE IF raw_session.expires_at.t = "list"
    THEN [exc |-> "TypeError", ret |-> None]             \* int() raises TypeError
    ELSE IF ~raw_session.rest
    THEN [exc |-> NoExc, ret |-> None]                   \* Session.parse_obj fails
    ELSE [exc |-> NoExc,
          ret |-> Session(raw_session.access_token, raw_session.refresh_token,
                          raw_session.expires_at.n)]

----------------------------------------------------------------------------
(* Auth state notifier.                                                    *)

Subscription(id, cb) == [id |-> id, callback |-> cb]

Keys(emitters) == {emitters[i].id : i \in 1..Len(emitters)}

\* dict.pop(key) on the insertion-ordered dict
Pop(emitters, id) == SelectSeq(emitters, LAMBDA s : s.id # id)

\* on_auth_state_change._unsubscribe
_unsubscribe(c, unique_id) ==
    IF unique_id \in Keys(c.state_change_emitters)
    THEN Ok([c EXCEPT !.state_change_emitters = Pop(@, unique_id)], None)
    ELSE Raise(c, "KeyError")

\* what a call leaves when the step n it ends with has not raised
Returning(n, ret) == IF n.exc # NoExc THEN n ELSE Ok(n.c, ret)

\* the callback of `sub` is told (event, session)
Told(c, sub, event, session) ==
    [c EXCEPT !.events = Append(@, [id |-> sub.id, event |-> event, session |-> session])]

\* subscription.callback(event, session): the callback is told, then returns,
\* raises, or calls its own subscription's unsubscribe
Call(c, sub, event, session) ==
    CASE sub.callback = "returns" -> Ok(Told(c, sub, event, session), None)
      [] sub.callback = "raises" -> Raise(Told(c, sub, event, session), "CallbackError")
      [] sub.callback = "unsubscribes" -> _unsubscribe(Told(c, sub, event, session), sub.id)

RECURSIVE Iterate(_, _, _, _, _)
\* the loop goes on after the callback at `pos`, unless the callback raised
Iterated(r, pos, used, event, session) ==
    IF r.exc # NoExc THEN r ELSE Iterate(r.c, pos + 1, used, event, session)

\* the loop over self._state_change_emitters.values(): `pos` is the iterator's
\* position, `used` the size of the dict when the iteration began
Iterate(c, pos, used, event, session) ==
    IF Len(c.state_change_emitters) # used
    THEN Raise(c, "RuntimeError")     \* dictionary changed size during iteration
    ELSE IF pos > Len(c.state_change_emitters) THEN Ok(c, None)
    ELSE Iterated(Call(c, c.state_change_emitters[pos], event, session),
                  pos, used, event, session)

_notify_all_subscribers(c, event, session) ==
    Iterate(c, 1, Len(c.state_change_emitters), event, session)

----------------------------------------------------------------------------
(* Session store and refresh scheduler.                                    *)

\* self._refresh_token_timer = timer: a Timer that the field held before and
\* that nobody has cancelled stays pending, out of the reach of self
Arm(c, timer) ==
    [c EXCEPT !.refresh_token_timer = timer,
              !.stray_timers = IF Pending(c.refresh_token_timer) THEN @ + 1 ELSE @]

\* the Timer is left as it is
NotCancelled(c) == c

\* `if self._refresh_token_timer: self._refresh_token_timer.cancel()`
Cancelled(c) ==
    IF c.refresh_token_timer # None
    THEN [c EXCEPT !.refresh_token_timer = [@ EXCEPT !.alive = FALSE]]
    ELSE c

\* the Timer is neither cancelled nor dropped
CancelTimerKeeps(c) == c

\* `if self._refresh_token_timer:` cancel it and drop it
CancelTimer(c) ==
    IF c.refresh_token_timer # None
    THEN Arm(Cancelled(c), None)
    ELSE c

_remove_session(c) ==
    CancelTimer(IF c.persist_session
                THEN [c EXCEPT !.storage = None]
                ELSE [c EXCEPT !.in_memory_session = None])

\* _start_auto_refresh_token once the timer held before is cancelled
StartTimer(c, value) ==
    IF NotPositive(value) \/ ~c.auto_refresh_token THEN c
    ELSE Arm(c, TimerStart(value, "refresh_token_function", c.now))

_start_auto_refresh_token(c, value) == StartTimer(CancelTimer(c), value)

\* the expiry margin is subtracted whatever time remains
RefreshDelayMargin(expire_in) == Ms((expire_in - EXPIRY_MARGIN) * 1000)

\* (expire_in - refresh_duration_before_expires) * 1000
RefreshDelay(expire_in) ==
    IF expire_in > EXPIRY_MARGIN
    THEN Ms((expire_in - EXPIRY_MARGIN) * 1000)
    ELSE Ms(expire_in * 1000 - 500)

\* _save_session: the in-memory slot (lines 581-582)
SaveInMemory(c, session) ==
    IF ~c.persist_session THEN [c EXCEPT !.in_memory_session = session] ELSE c

\* _save_session: the refresh timer (lines 583-592)
SaveTimer(c, session) ==
    IF session.expires_at # 0
    THEN _start_auto_refresh_token(c, RefreshDelay(session.expires_at - c.now))
    ELSE c

\* _save_session: the storage (lines 593-594)
SaveStorage(c, session) ==
    IF c.persist_session /\ session.expires_at # 0
    THEN [c EXCEPT !.storage = SessionJson(session)]
    ELSE c

_save_session(c, session) ==
    SaveStorage(SaveTimer(SaveInMemory(c, session), session), session)

----------------------------------------------------------------------------
(* Refresh protocol.  x is the answer of the token-exchange collaborator   *)
(* to this call: "session" (with its expires_in), "nosession" (a response  *)
(* that carries no session), "retryable" (AuthRetryableError) or "error"   *)
(* (any other failure).                                                    *)

Answer(t, expires_in) == [t |-> t, expires_in |-> expires_in]

\* parse_auth_response: the Session of a response; expires_at is
\* round(time()) + expires_in when expires_in is truthy, else unset
ResponseSession(c, at, rt, x) ==
    Session(at, rt, IF x.expires_in # 0 THEN c.now + x.expires_in ELSE 0)

\* the request of _refresh_access_token leaves: one token-exchange call
Send(c) == [c EXCEPT !.exchanges = @ + 1]

\* the response x to that request arrives and is parsed
Receive(c, x) ==
    CASE x.t = "session" -> Ok(c, ResponseSession(c, "a2", "r2", x))
      [] x.t = "nosession" -> Ok(c, None)
      [] x.t = "retryable" -> Raise(c, "AuthRetryableError")
      [] x.t = "error" -> Raise(c, "AuthApiError")

_refresh_access_token(c, refresh_token, x) == Receive(Send(c), x)

\* save the session and tell the subscribers; the call returns the session
SaveAndNotify(c, event, session) ==
    Returning(_notify_all_subscribers(_save_session(c, session), event, session),
              session)

\* _call_refresh_token from the response of _refresh_access_token on
\* (lines 565-569); r is what _refresh_access_token returned or raised
CallRefreshTokenResume(r) ==
    IF r.exc # NoExc THEN r
    ELSE IF r.ret = None THEN Raise(r.c, "AuthSessionMissingError")
    ELSE SaveAndNotify(r.c, "TOKEN_REFRESHED", r.ret)

_call_refresh_token(c, refresh_token, x) ==
    IF refresh_token = "" THEN Raise(c, "AuthSessionMissingError")
    ELSE CallRefreshTokenResume(_refresh_access_token(c, refresh_token, x))

\* has_expired with the comparison turned round
HasExpiredReversed(current_session, time) ==
    IF current_session.expires_at # 0
    THEN current_session.expires_at >= time
    ELSE FALSE

\* has_expired (lines 329-333)
HasExpired(current_session, time) ==
    IF current_session.expires_at # 0
    THEN current_session.expires_at <= time
    ELSE FALSE

\* get_session from the validation of the stored session to its last line
\* (lines 323-335); v is what _get_valid_session returned or raised, or the
\* in-memory session
GetSessionOf(c, v) ==
    IF v.exc # NoExc
    THEN [c |-> c, exc |-> v.exc, ret |-> None, refresh |-> FALSE]
    ELSE IF v.ret = None
    THEN [c |-> IF c.persist_session THEN _remove_session(c) ELSE c,
          exc |-> NoExc, ret |-> None, refresh |-> FALSE]
    ELSE [c |-> c, exc |-> NoExc, ret |-> v.ret, refresh |-> HasExpired(v.ret, c.now)]

\* get_session up to its last line (lines 319-335): `refresh` tells that the
\* session has expired and line 336 is to run
GetSessionLocal(c) ==
    GetSessionOf(c, IF c.persist_session THEN _get_valid_session(c.storage)
                    ELSE [exc |-> NoExc, ret |-> c.in_memory_session])

\* get_session: its last line (line 336), when it is to run
GetSessionRefresh(g, x) ==
    IF g.refresh THEN _call_refresh_token(g.c, g.ret.refresh_token, x)
    ELSE [c |-> g.c, exc |-> g.exc, ret |-> g.ret]

get_session(c, x) == GetSessionRefresh(GetSessionLocal(c), x)

\* the request of get_user, admin.sign_out or a sign-in leaves
Request(c) == [c EXCEPT !.requests = @ + 1]

\* get_user(jwt) with a jwt given: u is the answer of the user-profile
\* collaborator, "ok" or "error"
get_user(c, jwt, u) ==
    IF u = "ok" THEN Ok(Request(c), None) ELSE Raise(Request(c), "AuthApiError")

\* sign_in_with_password from its request on (lines 172-211)
SignInRequest(c, x) ==
    CASE x.t = "retryable" -> Raise(c, "AuthRetryableError")
      [] x.t = "error" -> Raise(c, "AuthApiError")
      [] x.t = "nosession" -> Ok(c, None)
      [] x.t = "session" -> SaveAndNotify(c, "SIGNED_IN", ResponseSession(c, "a1", "r1", x))

\* sign_in_with_password (sign_up and verify_otp have the same shape): x is
\* the answer of the token endpoint to the credentials
sign_in_with_password(c, x) == SignInRequest(Request(_remove_session(c)), x)

\* An access token given to set_session: `form` is "empty", "nodot" (no
\* second dot-separated part), or "jwt" with payload claim exp (0: no exp)
Jwt(text, form, exp) == [text |-> text, form |-> form, exp |-> exp]

\* set_session: the refresh path from the response on (lines 399-414)
SetSessionRefreshed(response) ==
    IF response.exc # NoExc THEN response
    ELSE IF response.ret = None THEN Ok(response.c, None)
    ELSE SaveAndNotify(response.c, "TOKEN_REFRESHED", response.ret)

\* set_session: the direct path from the user profile on (lines 404-414)
SetSessionDirect(response, session) ==
    IF response.exc # NoExc THEN response
    ELSE SaveAndNotify(response.c, "TOKEN_REFRESHED", session)

\* set_session: the exp claim decoded from the access token (lines 389-394)
Decoded(access_token) == access_token.form = "jwt" /\ access_token.exp # 0

set_session(c, access_token, refresh_token, x, u) ==
    LET time_now == c.now
        expires_at == IF Decoded(access_token) THEN access_token.exp ELSE time_now
        has_expired == IF Decoded(access_token) THEN expires_at <= time_now ELSE TRUE
    IN  IF access_token.form = "nodot" THEN Raise(c, "IndexError")
        ELSE IF has_expired
        THEN IF refresh_token = "" THEN Raise(c, "AuthSessionMissingError")
             ELSE SetSessionRefreshed(_refresh_access_token(c, refresh_token, x))
        ELSE SetSessionDirect(get_user(c, access_token.text, u),
                              Session(access_token.text, refresh_token, expires_at))

\* sign_out from the return of get_session on (lines 429-433); o is the
\* answer of admin.sign_out, "ok" or "error"
SignOutOf(g, o) ==
    LET access_token == IF g.ret # None THEN g.ret.access_token ELSE ""
    IN  IF g.exc # NoExc THEN g
        ELSE IF access_token = ""
        THEN _notify_all_subscribers(_remove_session(g.c), "SIGNED_OUT", None)
        ELSE IF o # "ok" THEN Raise(Request(g.c), "AuthApiError")
        ELSE _notify_all_subscribers(_remove_session(Request(g.c)), "SIGNED_OUT", None)

sign_out(c, x, o) == SignOutOf(get_session(c, x), o)

----------------------------------------------------------------------------
(* Implicit grant recoverer.  A url is the sequence of its parts after the *)
(* path: the separators "?" and "#" and the name=value pairs between them. *)
(* A value is a word, or the decimal numeral of `int`.                     *)

Sep(t) == [sep |-> t, name |-> "", value |-> "", int |-> 0]

Word(name, w) == [sep |-> "", name |-> name, value |-> w, int |-> 0]

Numeral(name, n) == [sep |-> "", name |-> name, value |-> "numeral", int |-> n]

\* position of the first separator t in url, Len(url) + 1 when there is none
First(url, t) ==
    LET at == {i \in 1..Len(url) : url[i].sep = t}
    IN  IF at = {} THEN Len(url) + 1
        ELSE CHOOSE i \in at : \A j \in at : i <= j

\* urlparse(url).query: what lies between the first "?" and the "#", when
\* the "?" comes before the "#"; what follows "#" is the fragment
UrlQuery(url) ==
    LET q == First(url, "?")
        f == First(url, "#")
    IN  IF q < f THEN SubSeq(url, q + 1, f - 1) ELSE <<>>

\* parse_qs(query): the pairs with a non-blank value
ParseQs(query) == SelectSeq(query, LAMBDA p : p.sep = "" /\ p.value # "")

Has(params, name) == \E i \in 1..Len(params) : params[i].name = name

\* _get_param: the first value under `name`, None (here a blank pair) if absent
_get_param(query_params, name) ==
    IF Has(query_params, name)
    THEN LET i == CHOOSE i \in 1..Len(query_params) :
                      /\ query_params[i].name = name
                      /\ \A j \in 1..(i - 1) : query_params[j].name # name
         IN  query_params[i]
    ELSE Word(name, "")

_is_implicit_grant_flow(url) ==
    LET params == ParseQs(UrlQuery(url))
    IN  Has(params, "access_token") \/ Has(params, "error_description")

\* _get_session_from_url from the user profile on (lines 512-524)
GrantOf(user, params, expires_at) ==
    IF user.exc # NoExc THEN user
    ELSE Ok(user.c,
            [session |-> Session(_get_param(params, "access_token").value,
                                 _get_param(params, "refresh_token").value,
                                 expires_at),
             redirect_type |-> _get_param(params, "type").value])

\* _get_session_from_url from the parsed query on (lines 484-524)
GrantFrom(c, params, u) ==
    LET access_token == _get_param(params, "access_token")
        expires_in == _get_param(params, "expires_in")
        time_now == c.now
    IN  IF _get_param(params, "error_description").value # ""
        THEN IF _get_param(params, "error_code").value = ""
             THEN Raise(c, "AuthImplicitGrantRedirectError: No error_code detected.")
             ELSE IF _get_param(params, "error").value = ""
             THEN Raise(c, "AuthImplicitGrantRedirectError: No error detected.")
             ELSE Raise(c, "AuthImplicitGrantRedirectError: error_description")
        ELSE IF access_token.value = ""
        THEN Raise(c, "AuthImplicitGrantRedirectError: No access_token detected.")
        ELSE IF expires_in.value = ""
        THEN Raise(c, "AuthImplicitGrantRedirectError: No expires_in detected.")
        ELSE IF _get_param(params, "refresh_token").value = ""
        THEN Raise(c, "AuthImplicitGrantRedirectError: No refresh_token detected.")
        ELSE IF _get_param(params, "token_type").value = ""
        THEN Raise(c, "AuthImplicitGrantRedirectError: No token_type detected.")
        ELSE IF expires_in.value # "numeral" THEN Raise(c, "ValueError")   \* int()
        ELSE GrantOf(get_user(c, access_token.value, u), params,
                     time_now + expires_in.int)

\* returns [session, redirect_type] in `ret`
_get_session_from_url(c, url, u) ==
    IF ~_is_implicit_grant_flow(url)
    THEN Raise(c, "AuthImplicitGrantRedirectError: Not a valid implicit grant flow url.")
    ELSE GrantFrom(c, ParseQs(UrlQuery(url)), u)

\* initialize_from_url: the PASSWORD_RECOVERY notification (lines 98-99)
Recovery(signed, got) ==
    IF signed.exc # NoExc THEN signed
    ELSE IF got.ret.redirect_type = "recovery"
    THEN _notify_all_subscribers(signed.c, "PASSWORD_RECOVERY", got.ret.session)
    ELSE signed

\* initialize_from_url: the body of its try, from the return of
\* _get_session_from_url on (lines 96-99)
SignedIn(got) ==
    IF got.exc # NoExc THEN got
    ELSE Recovery(_notify_all_subscribers(_save_session(got.c, got.ret.session),
                                          "SIGNED_IN", got.ret.session),
                  got)

\* the except clause re-raises without removing the session
ExceptKeeps(r) ==
    IF r.exc # NoExc THEN Raise(r.c, r.exc) ELSE Ok(r.c, None)

\* initialize_from_url: the except clause (lines 100-102)
Except(r) ==
    IF r.exc # NoExc THEN Raise(_remove_session(r.c), r.exc) ELSE Ok(r.c, None)

initialize_from_url(c, url, u) ==
    IF ~_is_implicit_grant_flow(url) THEN Ok(c, None)
    ELSE Except(SignedIn(_get_session_from_url(c, url, u)))

----------------------------------------------------------------------------
(* Start-up recovery and the timer callbacks.  A callback that reaches the *)
(* token exchange sends the request in one step and resumes with the       *)
(* response in a later one; `wait` names the call that waits ("" when the  *)
(* call has finished) and `refresh_token` the token that was sent.         *)

Finished(r) == [c |-> r.c, exc |-> r.exc, ret |-> r.ret, wait |-> "", refresh_token |-> ""]

\* `call` has sent its token-exchange request and waits for the response
Waiting(c, call, refresh_token) ==
    [c |-> Send(c), exc |-> NoExc, ret |-> None,
     wait |-> call, refresh_token |-> refresh_token]

\* _recover_and_refresh from the validation of the stored session to its call
\* of _call_refresh_token (lines 529-540); v is what _get_valid_session
\* returned or raised
RecoverOf(c, v) ==
    IF v.exc # NoExc THEN Finished(Raise(c, v.exc))
    ELSE IF v.ret = None
    THEN IF c.storage # None /\ c.storage # Text("empty")
         THEN Finished(Ok(_remove_session(c), None))
         ELSE Finished(Ok(c, None))
    ELSE IF v.ret.expires_at # 0 /\ v.ret.expires_at < c.now + EXPIRY_MARGIN
    THEN IF c.auto_refresh_token /\ v.ret.refresh_token # ""
         THEN Waiting([c EXCEPT !.network_retries = @ + 1],
                      "_recover_and_refresh", v.ret.refresh_token)
         ELSE Finished(Ok(_remove_session(c), None))
    ELSE Finished(_notify_all_subscribers(
                      IF c.persist_session THEN _save_session(c, v.ret) ELSE c,
                      "SIGNED_IN", v.ret))

\* _recover_and_refresh up to its call of _call_refresh_token (lines 527-540)
RecoverBegin(c) == RecoverOf(c, _get_valid_session(c.storage))

\* _recover_and_refresh from the return of _call_refresh_token on (lines
\* 541-556); r is what _call_refresh_token returned or raised
RecoverResume(r) ==
    IF r.exc = NoExc
    THEN Ok(_remove_session([r.c EXCEPT !.network_retries = 0]), None)
    ELSE IF r.exc = "AuthRetryableError" /\ r.c.network_retries < MAX_RETRIES
    THEN Ok(Arm(Cancelled(r.c),
                TimerStart(Power(RETRY_INTERVAL, r.c.network_retries * 100),
                           "_recover_and_refresh", r.c.now)),
            None)
    ELSE Ok(_remove_session(r.c), None)

\* _recover_and_refresh, the exchange answered at once
RecoverExchange(b, x) ==
    IF b.wait = "" THEN [c |-> b.c, exc |-> b.exc, ret |-> b.ret]
    ELSE RecoverResume(CallRefreshTokenResume(Receive(b.c, x)))

_recover_and_refresh(c, x) == RecoverExchange(RecoverBegin(c), x)

initialize_from_storage(c, x) == _recover_and_refresh(c, x)

initialize(c, url, x, u) ==
    IF url # <<>> /\ _is_implicit_grant_flow(url)
    THEN initialize_from_url(c, url, u)
    ELSE initialize_from_storage(c, x)

\* refresh_token_function: the except clause (lines 610-617)
RefreshFailed(c, exc) ==
    IF exc = "AuthRetryableError" /\ c.network_retries < MAX_RETRIES
    THEN _start_auto_refresh_token(c, Power(RETRY_INTERVAL, c.network_retries * 100))
    ELSE c

\* refresh_token_function: `if session: self._call_refresh_token(...)` up to
\* the request (lines 607-608)
RefreshCall(c, session) ==
    IF session = None THEN Finished(Ok(c, None))
    ELSE IF session.refresh_token = ""
    THEN Finished(Ok(RefreshFailed(c, "AuthSessionMissingError"), None))
    ELSE Waiting(c, "refresh_token_function", session.refresh_token)

\* refresh_token_function from its call of get_session to its first token
\* exchange (lines 606-608); g is get_session up to its last line
RefreshOf(g) ==
    IF g.exc # NoExc THEN Finished(Ok(RefreshFailed(g.c, g.exc), None))
    ELSE IF g.refresh
    THEN IF g.ret.refresh_token = ""
         THEN Finished(Ok(RefreshFailed(g.c, "AuthSessionMissingError"), None))
         ELSE Waiting(g.c, "get_session", g.ret.refresh_token)
    ELSE RefreshCall(g.c, g.ret)

\* refresh_token_function up to its first token exchange (lines 604-608)
RefreshBegin(c) == RefreshOf(GetSessionLocal([c EXCEPT !.network_retries = @ + 1]))

\* refresh_token_function from a response on: `call` is the call that waited,
\* r what its _call_refresh_token returned or raised
RefreshResume(call, r) ==
    IF r.exc # NoExc THEN Finished(Ok(RefreshFailed(r.c, r.exc), None))
    ELSE IF call = "get_session" THEN RefreshCall(r.c, r.ret)
    ELSE Finished(Ok([r.c EXCEPT !.network_retries = 0], None))

----------------------------------------------------------------------------
(* The state machine.                                                      *)

\* `self` at the start of a step, with an empty observation log
Self ==
    [persist_session |-> persist_session, auto_refresh_token |-> auto_refresh_token,
     storage |-> storage, in_memory_session |-> in_memory_session,
     refresh_token_timer |-> refresh_token_timer, stray_timers |-> stray_timers,
     network_retries |-> network_retries,
     state_change_emitters |-> state_change_emitters, now |-> now,
     events |-> <<>>, exchanges |-> 0, requests |-> 0]

\* the fields of `self` after a step
Commit(c) ==
    /\ storage' = c.storage
    /\ in_memory_session' = c.in_memory_session
    /\ refresh_token_timer' = c.refresh_token_timer
    /\ stray_timers' = c.stray_timers
    /\ network_retries' = c.network_retries
    /\ state_change_emitters' = c.state_change_emitters
    /\ UNCHANGED <<persist_session, auto_refresh_token, now>>

\* no session is held: the storage key is empty in persisted mode, the
\* in-memory slot otherwise
NoSession(c) ==
    IF c.persist_session THEN c.storage = None ELSE c.in_memory_session = None

\* the arguments of a call and the answers of its collaborators: x of the
\* token exchange, u of any other request
Input(url, access_token, refresh_token, unique_id, x, u) ==
    [url |-> url, access_token |-> access_token, refresh_token |-> refresh_token,
     unique_id |-> unique_id, x |-> x, u |-> u, session |-> None]

\* no access token is given
NoJwt == Jwt("", "empty", 0)

\* a call without arguments that asks for x and u
Asked(x, u) == Input(<<>>, NoJwt, "", 0, x, u)

NoInput == Asked(Answer("session", 0), "ok")

\* the timer callbacks
Background == {"refresh_token_function", "_recover_and_refresh"}

\* the calls that count in self._network_retries: the timer callbacks, and
\* the first run of _recover_and_refresh at start-up
Attempts == Background \cup {"initialize_from_storage", "initialize"}

\* the retryable failures that these calls have met in a row; a start-up
\* begins a new row
Streak(op, done, x) ==
    IF op \notin Attempts \/ ~done THEN last.streak
    ELSE IF x.t # "retryable" THEN 0
    ELSE IF op \in Background THEN last.streak + 1
    ELSE 1

\* the calls that give the client a session
Starters ==
    {"sign_in_with_password", "set_session", "initialize", "initialize_from_storage",
     "initialize_from_url", "_save_session"}

\* sign_out has returned and none of Starters has been called since
SignedOut(op, r) ==
    IF op = "sign_out" THEN r.exc = NoExc
    ELSE IF op \in Starters THEN FALSE
    ELSE last.signed_out

\* what a step leaves in `last`: the call, its input, whether it has
\* finished, how it ended, the notifications and token exchanges it made, and
\* whether a session was held and a timer pending before it
Observed(op, c0, r, done, input) ==
    [op |-> op, input |-> input, done |-> done, exc |-> r.exc, ret |-> r.ret,
     events |-> r.c.events, exchanges |-> r.c.exchanges,
     held |-> ~NoSession(c0), pending |-> Pending(c0.refresh_token_timer),
     streak |-> Streak(op, done, input.x), signed_out |-> SignedOut(op, r),
     again |-> FALSE]

\* the call leaves every field of `self` as it found it
Same(c) ==
    /\ c.storage = storage
    /\ c.in_memory_session = in_memory_session
    /\ c.refresh_token_timer = refresh_token_timer
    /\ c.stray_timers = stray_timers
    /\ c.network_retries = network_retries
    /\ c.state_change_emitters = state_change_emitters

\* A call that changes nothing and is observed exactly as the step before it
\* is marked `again`, so that the repeated call is a step of its own.
Noted(o, same) == [o EXCEPT !.again = same /\ ~last.again /\ o = last]

Idle == [wait |-> "", function |-> "", refresh_token |-> "", events |-> <<>>, exchanges |-> 0]

\* a public call runs to its end in one step
Call_(op, r, input) ==
    /\ Commit(r.c)
    /\ last' = Noted(Observed(op, Self, r, TRUE, input), Same(r.c))
    /\ UNCHANGED <<callback, subscriptions>>

\* the instants at which the tokens handed out by the server expire
Deadlines == {3, 13}

\* the expires_in of a response at `time`: unset, or up to one of Deadlines
ExpiresIn(time) == {0} \cup {d - time : d \in {e \in Deadlines : e > time}}

Answers ==
    {Answer("session", e) : e \in ExpiresIn(now)}
        \cup {Answer(t, 0) : t \in {"nosession", "retryable", "error"}}

Tick ==
    /\ now < MaxClock
    /\ now' = now + 1
    /\ last' = [Observed("tick", Self, Ok(Self, None), TRUE, NoInput)
                    EXCEPT !.held = FALSE, !.pending = FALSE]
    /\ UNCHANGED <<persist_session, auto_refresh_token, storage, in_memory_session,
                   refresh_token_timer, stray_timers, network_retries,
                   state_change_emitters, callback, subscriptions>>

\* A public call with the answers its collaborators give: x to a token
\* exchange, u to any other request.  The answers to requests that the call
\* does not make are not enumerated.
Asks(F(_, _)) ==
    LET r == F(Answer("session", 0), "ok")
    IN  {<<x, u>> \in Answers \X {"ok", "error"} :
            /\ (r.c.exchanges = 0 => x = Answer("session", 0))
            /\ (r.c.requests = 0 => u = "ok")}

GetSession ==
    \E a \in Asks(LAMBDA x, u : get_session(Self, x)) :
        Call_("get_session", get_session(Self, a[1]), Asked(a[1], a[2]))

\* the token endpoint answers the credentials as it answers a refresh token
SignInWithPassword ==
    \E x \in Answers :
        Call_("sign_in_with_password", sign_in_with_password(Self, x), Asked(x, "ok"))

SignOut ==
    \E a \in Asks(LAMBDA x, u : sign_out(Self, x, u)) :
        Call_("sign_out", sign_out(Self, a[1], a[2]), Asked(a[1], a[2]))

Jwts ==
    {NoJwt, Jwt("a1", "nodot", 0)}
        \cup {Jwt("a1", "jwt", e) : e \in {0} \cup Deadlines}

SetSession ==
    \E access_token \in Jwts, refresh_token \in {"", "r1"} :
        \E a \in Asks(LAMBDA x, u : set_session(Self, access_token, refresh_token, x, u)) :
            Call_("set_session",
                  set_session(Self, access_token, refresh_token, a[1], a[2]),
                  Input(<<>>, access_token, refresh_token, 0, a[1], a[2]))

InitializeFromStorage(cap) ==
    /\ network_retries < cap
    /\ \E a \in Asks(LAMBDA x, u : initialize_from_storage(Self, x)) :
        Call_("initialize_from_storage", initialize_from_storage(Self, a[1]),
              Asked(a[1], a[2]))

\* a redirect url that carries the four fields of a grant after `sep`
Grant(sep, expires_in) ==
    <<Sep(sep), Word("access_token", "a1"), Numeral("expires_in", expires_in),
      Word("refresh_token", "r1"), Word("token_type", "bearer")>>

\* grants that expire at the last of Deadlines, in the query and in the
\* fragment, with and without type=recovery; a grant that lacks fields; an
\* error redirect
Urls ==
    LET e == 13 - now
    IN  {Grant("?", e), Grant("?", e) \o <<Word("type", "recovery")>>,
         Grant("#", e), Grant("#", e) \o <<Word("type", "recovery")>>,
         <<Sep("?"), Word("access_token", "a1"), Numeral("expires_in", e)>>,
         <<Sep("?"), Word("error_description", "denied"), Word("error", "x")>>}

InitializeFromUrl ==
    \E url \in Urls :
        \E a \in Asks(LAMBDA x, u : initialize_from_url(Self, url, u)) :
            Call_("initialize_from_url", initialize_from_url(Self, url, a[2]),
                  Input(url, NoJwt, "", 0, a[1], a[2]))

Initialize(cap) ==
    /\ network_retries < cap
    /\ \E url \in {<<>>, Grant("?", 13 - now), Grant("#", 13 - now)} :
        \E a \in Asks(LAMBDA x, u : initialize(Self, url, x, u)) :
            Call_("initialize", initialize(Self, url, a[1], a[2]),
                  Input(url, NoJwt, "", 0, a[1], a[2]))

\* a step of a timer callback: it ends waiting for its token exchange, or
\* it has finished (the step always changes `self` or `callback`: the timer
\* has fired, the exchange is counted)
CallbackStep(function, b, x) ==
    /\ Commit(b.c)
    /\ callback' = IF b.wait = "" THEN Idle
                   ELSE [wait |-> b.wait, function |-> function,
                         refresh_token |-> b.refresh_token,
                         events |-> b.c.events, exchanges |-> b.c.exchanges]
    /\ last' = Observed(function, Self, b, b.wait = "", Asked(x, "ok"))
    /\ UNCHANGED subscriptions

\* the callback of a Timer up to its first token exchange
Begin(function, c) ==
    IF function = "refresh_token_function" THEN RefreshBegin(c) ELSE RecoverBegin(c)

\* the callback of a Timer from the return of its _call_refresh_token on
Resume(function, call, r) ==
    IF function = "refresh_token_function" THEN RefreshResume(call, r)
    ELSE Finished(RecoverResume(r))

\* the Timer fires: its callback runs up to its first token exchange, or to
\* its end when it makes none (one callback runs at a time)
TimerFires(cap) ==
    /\ Due(refresh_token_timer, now)
    /\ callback.wait = ""
    /\ network_retries < cap
    /\ CallbackStep(refresh_token_timer.function,
                    Begin(refresh_token_timer.function,
                          [Self EXCEPT !.refresh_token_timer = Fired(@)]),
                    Answer("session", 0))

\* the response to the token exchange of the waiting callback arrives
CallbackResumes ==
    /\ callback.wait # ""
    /\ \E x \in Answers :
        CallbackStep(callback.function,
                     Resume(callback.function, callback.wait,
                            CallRefreshTokenResume(
                                Receive([Self EXCEPT !.events = callback.events,
                                                     !.exchanges = callback.exchanges],
                                        x))),
                     x)

\* on_auth_state_change: unique_id is a fresh id
on_auth_state_change(c, unique_id, cb) ==
    Ok([c EXCEPT !.state_change_emitters = Append(@, Subscription(unique_id, cb))],
       None)

Callbacks == {"returns", "raises", "unsubscribes"}

\* a fresh id is drawn and on_auth_state_change hands out its Subscription
Subscribed(unique_id, r) ==
    /\ Commit(r.c)
    /\ subscriptions' = subscriptions \cup {unique_id}
    /\ last' = Observed("on_auth_state_change", Self, r, TRUE,
                         Input(<<>>, NoJwt, "", unique_id, Answer("session", 0), "ok"))
    /\ UNCHANGED callback

OnAuthStateChange ==
    /\ Cardinality(subscriptions) < MaxSubs
    /\ \E cb \in Callbacks :
        Subscribed(Cardinality(subscriptions) + 1,
                   on_auth_state_change(Self, Cardinality(subscriptions) + 1, cb))

\* subscription.unsubscribe(), called by the holder of a Subscription
Unsubscribe ==
    \E unique_id \in subscriptions :
        Call_("unsubscribe", _unsubscribe(Self, unique_id),
              Input(<<>>, NoJwt, "", unique_id, Answer("session", 0), "ok"))

StoredSessions ==
    {None} \cup {SessionJson(Session("a1", "r1", d)) : d \in Deadlines}

Constructed ==
    /\ in_memory_session = None
    /\ refresh_token_timer = None
    /\ stray_timers = 0
    /\ network_retries = 0
    /\ now = 1
    /\ callback = Idle
    /\ last = [op |-> "__init__", input |-> NoInput, done |-> TRUE, exc |-> NoExc,
               ret |-> None, events |-> <<>>, exchanges |-> 0, held |-> FALSE,
               pending |-> FALSE, streak |-> 0, signed_out |-> FALSE, again |-> FALSE]

\* Sessions and timers: a client in either persistence mode, with or without
\* auto-refresh, and one subscriber whose callback returns.
Init ==
    /\ persist_session \in BOOLEAN
    /\ auto_refresh_token \in BOOLEAN
    /\ storage \in IF persist_session THEN StoredSessions
                   ELSE {None, SessionJson(Session("a1", "r1", 3))}
    /\ state_change_emitters = <<Subscription(1, "returns")>>
    /\ subscriptions = {1}
    /\ Constructed

Next ==
    \/ Tick
    \/ GetSession
    \/ SignInWithPassword
    \/ SignOut
    \/ SetSession
    \/ TimerFires(RetryCap)
    \/ CallbackResumes

Spec == Init /\ [][Next]_vars

\* Start-up: the client is initialized from its storage or from a redirect
\* url, any number of times.
NextStartup ==
    \/ Tick
    \/ GetSession
    \/ InitializeFromStorage(RetryCap)
    \/ InitializeFromUrl
    \/ Initialize(RetryCap)
    \/ TimerFires(RetryCap)
    \/ CallbackResumes

SpecStartup == Init /\ [][NextStartup]_vars

\* Retry chains: a client with auto-refresh, followed through its backoff
\* timers beyond the retry ceiling.
InitRetry ==
    /\ persist_session \in BOOLEAN
    /\ auto_refresh_token = TRUE
    /\ storage \in {None, SessionJson(Session("a1", "r1", 3))}
    /\ state_change_emitters = <<Subscription(1, "returns")>>
    /\ subscriptions = {1}
    /\ Constructed

NextRetry ==
    \/ Tick
    \/ SignInWithPassword
    \/ InitializeFromStorage(RetryDeep)
    \/ TimerFires(RetryDeep)
    \/ CallbackResumes

SpecRetry == InitRetry /\ [][NextRetry]_vars

\* The notifier: subscribers come and go, their callbacks return, raise or
\* unsubscribe; the clock stands still.
InitNotifier ==
    /\ persist_session \in BOOLEAN
    /\ auto_refresh_token \in BOOLEAN
    /\ storage = None
    /\ state_change_emitters = <<>>
    /\ subscriptions = {}
    /\ Constructed

NextNotifier ==
    \/ OnAuthStateChange
    \/ Unsubscribe
    \/ GetSession
    \/ SignInWithPassword
    \/ SignOut
    \/ InitializeFromUrl

SpecNotifier == InitNotifier /\ [][NextNotifier]_vars

\* the argument of _save_session
Saving(session) == [NoInput EXCEPT !.session = session]

\* what the storage may hold under the key when the client is constructed:
\* nothing, text that is no JSON object, and records with and without each
\* of the fields that the validator looks at
RawSessions ==
    {None, Text("empty"), Text("malformed")}
        \cup {Json(at, rt, e, rest) :
                  at \in {"", "a1"}, rt \in {"", "r1"},
                  e \in {JNull, JInt(0), JInt(3), JNumeral(13), JWord, JFloat(3), JList},
                  rest \in BOOLEAN}

\* the sessions handed to _save_session: built by set_session from its two
\* arguments (the refresh token may be empty), or parsed from a response or
\* a redirect; expires_at unset, or before, at and after the clock, within
\* and beyond the expiry margin
SavedSessions ==
    {Session("a1", rt, e) : rt \in {"", "r1"}, e \in {0, 3, 13, 14}}

\* the storage is read and the item under the key validated
GetValidSession ==
    \E v \in {_get_valid_session(storage)} :
        Call_("_get_valid_session", [c |-> Self, exc |-> v.exc, ret |-> v.ret], NoInput)

SaveSession ==
    \E session \in SavedSessions :
        Call_("_save_session", Ok(_save_session(Self, session), None), Saving(session))

RemoveSession ==
    \E c \in {_remove_session(Self)} :
        Call_("_remove_session", Ok(c, None), NoInput)

\* The session store on its own: sessions are saved, loaded and cleared, over
\* whatever the storage held at construction.
InitStore ==
    /\ persist_session \in BOOLEAN
    /\ auto_refresh_token \in BOOLEAN
    /\ storage \in IF persist_session THEN RawSessions ELSE {None}
    /\ state_change_emitters = <<>>
    /\ subscriptions = {}
    /\ Constructed

NextStore ==
    \/ Tick
    \/ GetValidSession
    \/ SaveSession
    \/ RemoveSession

SpecStore == InitStore /\ [][NextStore]_vars

----------------------------------------------------------------------------
(* Properties.  In an action formula the unprimed variables are the state  *)
(* before the step, the primed ones the state after it, and last' is what  *)
(* the step was seen to do.                                                *)

\* the session the client holds: the one the validator accepts in storage
\* when sessions are persisted, the one in the in-memory slot otherwise
Held == IF persist_session THEN _get_valid_session(storage).ret ELSE in_memory_session

\* no session is held
SessionCleared == IF persist_session THEN storage = None ELSE in_memory_session = None

\* how often the subscriber `id` was told `event`
Delivered(events, id, event) ==
    Cardinality({i \in 1..Len(events) : events[i].id = id /\ events[i].event = event})

\* every subscriber registered before the step was told `event` once in it
DeliveredOnce(event) ==
    \A i \in 1..Len(state_change_emitters) :
        Delivered(last'.events, state_change_emitters[i].id, event) = 1

\* the held session has expires_at set and in the past
HeldExpired == IsSession(Held) /\ Held.expires_at # 0 /\ Held.expires_at < now

\* C1 (as stated): for every held session whose expires_at is set and in the
\* past, in either persistence mode, one call of get_session makes exactly
\* one token exchange before it returns or raises.
C1_ExpiredSessionOneExchange ==
    [][(last'.op = "get_session" /\ HeldExpired) => last'.exchanges = 1]_vars

\* C1 (amended): for every held session whose expires_at is set and in the
\* past and whose refresh token is not empty, in either persistence mode, one
\* call of get_session makes exactly one token exchange before it returns or
\* raises.
C1_ExpiredSessionWithTokenOneExchange ==
    [][(last'.op = "get_session" /\ HeldExpired /\ Held.refresh_token # "")
           => last'.exchanges = 1]_vars

\* get_session has found an expired session, exchanged its refresh token once
\* and returned the new session
C1_Witness ==
    /\ last.op = "get_session"
    /\ last.held
    /\ last.exchanges = 1
    /\ last.exc = NoExc
    /\ IsSession(last.ret)
    /\ last.ret.refresh_token = "r2"

\* the notifications made in the step (a callback that resumes has made
\* those of callback.events before it)
StepEvents == SubSeq(last'.events, Len(callback.events) + 1, Len(last'.events))

\* a session whose expires_at is absent was saved (every save is followed by
\* the notification of the saved session)
SavedAbsent(events) ==
    \E i \in 1..Len(events) :
        /\ events[i].event \in {"SIGNED_IN", "TOKEN_REFRESHED"}
        /\ IsSession(events[i].session)
        /\ events[i].session.expires_at = 0

\* the step before returned the session it saved, whose expires_at is absent
ReturnedAbsent ==
    /\ last.op \in {"sign_in_with_password", "set_session", "get_session"}
    /\ last.exc = NoExc
    /\ SavedAbsent(last.events)
    /\ IsSession(last.ret)
    /\ last.ret.expires_at = 0

\* C3 (as stated): for every session saved with expires_at absent, in both
\* persistence modes, no Timer is pending after the save, and the get_session
\* that follows returns that same session without any token exchange.
C3_AbsentExpiryNoTimerSameSession ==
    [][/\ SavedAbsent(StepEvents) => ~Pending(refresh_token_timer')
       /\ (ReturnedAbsent /\ last'.op = "get_session")
              => (last'.exc = NoExc /\ last'.ret = last.ret /\ last'.exchanges = 0)]_vars

\* C10: every call of set_session that returns without raising has delivered
\* exactly one TOKEN_REFRESHED event to every registered subscriber, on the
\* refresh path and on the direct path alike.
C10_SetSessionDeliversTokenRefreshed ==
    [][(last'.op = "set_session" /\ last'.exc = NoExc)
           => DeliveredOnce("TOKEN_REFRESHED")]_vars

\* C2: start-up from storage with persistence and auto-refresh enabled,
\* storage holding a valid session whose expires_at is in the past, and a
\* token exchange that succeeds with a session expiring in the future: exactly
\* one TOKEN_REFRESHED event is delivered, and when the operation returns the
\* new session is the one held in storage.
C2_StartupRefreshPersistsNewSession ==
    [][(/\ \/ last'.op = "initialize_from_storage"
           \/ last'.op = "initialize" /\ last'.input.url = <<>>
        /\ persist_session
        /\ auto_refresh_token
        /\ HeldExpired
        /\ last'.input.x.t = "session"
        /\ last'.input.x.expires_in > 0)
           => /\ last'.exc = NoExc
              /\ DeliveredOnce("TOKEN_REFRESHED")
              /\ \E i \in 1..Len(last'.events) :
                    /\ last'.events[i].event = "TOKEN_REFRESHED"
                    /\ last'.events[i].session.expires_at = now + last'.input.x.expires_in
                    /\ storage' = SessionJson(last'.events[i].session)]_vars

\* the step is the n-th retryable failure in a row of the background refresh
NthRetryableFailure(n) ==
    /\ last'.op \in Background
    /\ last'.done
    /\ last.streak = n - 1
    /\ last'.streak = n

\* C4: after exactly MAX_RETRIES consecutive retryable failures of background
\* refresh, on the timer-callback path and on the start-up recovery path, the
\* session is cleared and no Timer is pending.
C4_CeilingClearsSession ==
    [][NthRetryableFailure(MAX_RETRIES)
           => (SessionCleared' /\ ~Pending(refresh_token_timer'))]_vars

\* C5: during one notification of an event, if the callback of one registered
\* subscriber raises, every other subscriber registered at that moment is
\* still invoked once for that same event.
C5_RaisingCallbackIsolated ==
    [][last'.exc = "CallbackError"
           => DeliveredOnce(last'.events[Len(last'.events)].event)]_vars

\* two subscribers are registered: k, which unsubscribes inside its callback,
\* and another whose callback returns
SelfUnsubscriber(k) ==
    /\ Len(state_change_emitters) = 2
    /\ k \in {1, 2}
    /\ state_change_emitters[k].callback = "unsubscribes"
    /\ state_change_emitters[3 - k].callback = "returns"

\* C6: with two subscribers registered, if one of them calls its own
\* unsubscribe inside its callback during a notification, the other one is
\* still invoked for that same event, the notification completes without
\* error, and the registry afterwards holds exactly the other subscriber.
C6_UnsubscribeDuringNotification ==
    [][\A k \in {1, 2} :
           (SelfUnsubscriber(k) /\ last'.events # <<>>)
               => /\ last'.exc = NoExc
                  /\ \A i \in 1..Len(last'.events) :
                        Delivered(last'.events, state_change_emitters[3 - k].id,
                                  last'.events[i].event) = 1
                  /\ Keys(state_change_emitters') = {state_change_emitters[3 - k].id}]_vars

\* C7: calling a Subscription's unsubscribe again, after it has removed its id
\* from the registry, raises no error and leaves the registry unchanged.
C7_UnsubscribeIdempotent ==
    [][(/\ last'.op = "unsubscribe"
        /\ last'.input.unique_id \in subscriptions
        /\ last'.input.unique_id \notin Keys(state_change_emitters))
           => (last'.exc = NoExc /\ state_change_emitters' = state_change_emitters)]_vars

\* C8: whenever initialize_from_url fails (in the parsing of the redirect, the
\* fetch of the user profile, the save, or a subscriber's callback), the
\* error reaches the caller, and then no session is held and no Timer is
\* pending, whatever session was held before the call.
C8_FailedUrlInitializeClears ==
    [][(last'.op = "initialize_from_url" /\ last'.exc # NoExc)
           => (SessionCleared' /\ Held' = None /\ ~Pending(refresh_token_timer'))]_vars

\* initialize_from_url has failed in a subscriber's callback, after it had
\* saved the session of the redirect over the one held before, whose Timer
\* was pending: nothing is held now
C8_Witness ==
    /\ last.op = "initialize_from_url"
    /\ last.exc = "CallbackError"
    /\ last.events # <<>>
    /\ last.held
    /\ last.pending
    /\ SessionCleared
    /\ ~Pending(refresh_token_timer)

\* what follows the "#" of the url, parsed as a query
Fragment(url) == ParseQs(SubSeq(url, First(url, "#") + 1, Len(url)))

\* the four fields of a grant
CarriesGrant(params) ==
    /\ Has(params, "access_token")
    /\ Has(params, "expires_in")
    /\ Has(params, "refresh_token")
    /\ Has(params, "token_type")

\* the session that the parameters of a redirect describe at `time`
GrantSession(params, time) ==
    Session(_get_param(params, "access_token").value,
            _get_param(params, "refresh_token").value,
            time + _get_param(params, "expires_in").int)

\* the step told every subscriber SIGNED_IN with `session` and, if recovery,
\* PASSWORD_RECOVERY with the same session after it
SignedInThenRecovery(events, id, session, recovery) ==
    \E i \in 1..Len(events) :
        /\ events[i] = [id |-> id, event |-> "SIGNED_IN", session |-> session]
        /\ recovery =>
               \E j \in (i + 1)..Len(events) :
                   events[j] = [id |-> id, event |-> "PASSWORD_RECOVERY",
                                session |-> session]

\* C9: initializing from a redirect url that carries access_token, expires_in,
\* refresh_token and token_type in its fragment saves a session with
\* expires_at = now + expires_in and delivers SIGNED_IN; when the url also
\* carries type=recovery, PASSWORD_RECOVERY is delivered as well, after
\* SIGNED_IN and with the same session.
C9_FragmentRedirectSignsIn ==
    [][(/\ last'.op \in {"initialize", "initialize_from_url"}
        /\ CarriesGrant(Fragment(last'.input.url))
        /\ last'.input.u = "ok")
           => /\ last'.exc = NoExc
              /\ Held' = GrantSession(Fragment(last'.input.url), now)
              /\ \A k \in 1..Len(state_change_emitters) :
                    SignedInThenRecovery(
                        last'.events, state_change_emitters[k].id,
                        GrantSession(Fragment(last'.input.url), now),
                        _get_param(Fragment(last'.input.url), "type").value = "recovery")]_vars

\* the held session has no expires_at, or one that lies more than the expiry
\* margin in the future
HeldFresh ==
    /\ IsSession(Held)
    /\ (Held.expires_at = 0 \/ Held.expires_at > now + EXPIRY_MARGIN)

\* C11: get_session returns the held session unchanged with no token exchange
\* if and only if its expires_at is unset or lies more than the expiry margin
\* in the future; for every session whose expires_at is within the margin of
\* now or in the past it calls the token exchange.
C11_GetSessionRefreshesWithinMargin ==
    [][(last'.op = "get_session" /\ IsSession(Held))
           => /\ (last'.exc = NoExc /\ last'.ret = Held /\ last'.exchanges = 0)
                     <=> HeldFresh
              /\ ~HeldFresh => last'.exchanges = 1]_vars

\* the checks of the validator: a record whose access_token and refresh_token
\* are not empty and whose expires_at is there and is an integer (or the
\* numeral of one) other than 0
PassesChecks(raw_session) ==
    /\ raw_session # None
    /\ raw_session.kind = "json"
    /\ raw_session.access_token # ""
    /\ raw_session.refresh_token # ""
    /\ raw_session.expires_at.t \in {"int", "numeral"}
    /\ raw_session.expires_at.n # 0

\* C12: the session validator never raises: for every raw stored value
\* (absent, empty, not well-formed text, a record missing or with empty
\* access_token / refresh_token / expires_at, an expires_at that is not an
\* integer) it returns null, and it returns a Session only when all of those
\* checks pass.
C12_ValidatorNeverRaises ==
    [][last'.op = "_get_valid_session"
           => /\ last'.exc = NoExc
              /\ IsSession(last'.ret) => PassesChecks(storage)
              /\ ~PassesChecks(storage) => last'.ret = None]_vars

\* the session was saved that is now in storage
SavedToStorage(session) ==
    /\ last'.op = "_save_session"
    /\ last'.input.session = session
    /\ persist_session
    /\ session.expires_at # 0

\* the load that follows the save of `session`
LoadAfterSave(session) ==
    /\ last.op = "_save_session"
    /\ last.input.session = session
    /\ persist_session
    /\ session.expires_at # 0
    /\ last'.op = "_get_valid_session"

Untouched ==
    UNCHANGED <<storage, in_memory_session, refresh_token_timer, stray_timers,
                network_retries, state_change_emitters>>

\* C14: from any state, calling clear (_remove_session) twice in a row raises
\* no error, and after each of the two calls the session slot is empty and no
\* Timer is pending; the second call changes nothing.
C14_ClearTwice ==
    [][last'.op = "_remove_session"
           => /\ last'.exc = NoExc
              /\ SessionCleared'
              /\ ~Pending(refresh_token_timer')
              /\ stray_timers' = 0
              /\ last.op = "_remove_session" => Untouched]_vars

\* the session was cleared a second time in a row: the call raised nothing,
\* found nothing to clear and no Timer to cancel, and changed nothing
C14_Witness ==
    /\ last.op = "_remove_session"
    /\ last.again
    /\ last.exc = NoExc
    /\ SessionCleared
    /\ refresh_token_timer = None

\* the Timers that are started, not yet fired and not cancelled
PendingTimers == stray_timers + (IF Pending(refresh_token_timer) THEN 1 ELSE 0)

\* C15: in every reachable state, after any sequence of save, clear, sign-in,
\* timer firing and retry steps, at most one refresh Timer is pending: every
\* step that arms a Timer first cancels the one held before.
C15_AtMostOneTimerPending == PendingTimers <= 1

\* a backoff Timer is pending that a start-up recovery has armed in the place
\* of an earlier backoff Timer
C15_Witness ==
    /\ Pending(refresh_token_timer)
    /\ refresh_token_timer.function = "_recover_and_refresh"
    /\ last.op = "_recover_and_refresh"
    /\ last.streak >= 2
    /\ PendingTimers = 1

\* C16: in every reachable state in which no session is held (storage key
\* empty in persisted mode, in-memory slot empty otherwise), no refresh Timer
\* is pending: every removal of the session cancels and drops any armed or
\* backoff Timer in the same step.
C16_NoSessionNoTimer == SessionCleared => PendingTimers = 0

\* the step is the end of a background refresh whose token exchange failed
\* with an error that is not retryable
BackgroundRefreshFailed ==
    /\ last'.op \in Background
    /\ last'.done
    /\ callback.wait # ""
    /\ last'.input.x.t \in {"error", "nosession"}

\* C17: when a fired Timer's refresh fails with a non-retryable error, on
\* either background path (auto-refresh timer callback, start-up
\* _recover_and_refresh), the session is cleared, no Timer is armed, and the
\* error is not propagated.
C17_NonRetryableFailureClears ==
    [][BackgroundRefreshFailed
           => /\ last'.exc = NoExc
              /\ SessionCleared'
              /\ ~Pending(refresh_token_timer')]_vars

\* C18: in every reachable state the consecutive retry counter
\* (_network_retries) is between 0 and the retry ceiling MAX_RETRIES
\* inclusive.
C18_RetriesWithinCeiling == network_retries \in 0..MAX_RETRIES

\* the session that the step's token refresh has saved: that of its last
\* TOKEN_REFRESHED notification
Refreshed(events) ==
    events[CHOOSE i \in 1..Len(events) :
               /\ events[i].event = "TOKEN_REFRESHED"
               /\ \A j \in (i + 1)..Len(events) : events[j].event # "TOKEN_REFRESHED"].session

\* a token refresh has succeeded in the step: it has told the subscribers
\* TOKEN_REFRESHED
RefreshSucceeded ==
    /\ last'.op \in Background \cup {"initialize_from_storage", "initialize",
                                     "get_session", "set_session"}
    /\ last'.exchanges > 0
    /\ \E i \in 1..Len(StepEvents) : StepEvents[i].event = "TOKEN_REFRESHED"

\* the delay that a save computes for `session` at `time` is positive
DelayPositive(session, time) ==
    /\ session.expires_at # 0
    /\ IF session.expires_at - time > EXPIRY_MARGIN
       THEN (session.expires_at - time - EXPIRY_MARGIN) * 1000 > 0
       ELSE (session.expires_at - time) * 1000 - 500 > 0

\* C19: after any successful token refresh (timer-triggered,
\* start-up-triggered, or triggered by a foreground get_session or
\* set_session on its refresh path), the retry
\* counter is 0 and a new Timer is pending for the refreshed session whenever
\* auto-refresh is enabled and the computed delay is positive.
C19_RefreshResetsAndRearms ==
    [][RefreshSucceeded
           => /\ network_retries' = 0
              /\ (auto_refresh_token /\ DelayPositive(Refreshed(StepEvents), now))
                     => Pending(refresh_token_timer')]_vars

\* C20: saving a session with expires_at set leaves a Timer pending if and
\* only if auto-refresh is enabled and delay > 0, where delay = (expires_at -
\* now - m) * 1000 with m = the expiry margin when the remaining time exceeds
\* the margin and m = 0.5 otherwise; in every other case no Timer is pending
\* after the save (a previously pending one is cancelled).
C20_SaveArmsTimerIffDelayPositive ==
    [][(last'.op = "_save_session" /\ last'.input.session.expires_at # 0)
           => /\ Pending(refresh_token_timer')
                     <=> (auto_refresh_token /\ DelayPositive(last'.input.session, now))
              /\ Pending(refresh_token_timer')
                     => refresh_token_timer'.due =
                            Ms(now * 1000
                               + (last'.input.session.expires_at - now) * 1000
                               - (IF last'.input.session.expires_at - now > EXPIRY_MARGIN
                                  THEN EXPIRY_MARGIN * 1000 ELSE 500))
              /\ stray_timers' = 0]_vars

\* a session that expires within the margin has been saved over a pending
\* Timer whose delay was not positive any more: no Timer is pending now
C20_Witness ==
    /\ last.op = "_save_session"
    /\ last.pending
    /\ auto_refresh_token
    /\ last.input.session.expires_at # 0
    /\ last.input.session.expires_at <= now
    /\ refresh_token_timer = None

\* a token exchange of a Timer callback is in flight: the request has left,
\* the response has not arrived
InFlight == callback.wait # ""

\* C21: with the Timer callback running asynchronously to the caller and the
\* public operations serialized among themselves, at no point are two
\* token-exchange calls in flight at the same time: a timer-triggered refresh
\* never overlaps a refresh started by a foreground get_session or
\* set_session, nor another timer-triggered refresh.
C21_OneExchangeInFlight ==
    [][InFlight => (last'.op \in Background \/ last'.exchanges = 0)]_vars

\* C22: every call of sign_out, from any state and whatever the outcome of
\* the refresh that its internal get_session may attempt, ends with no
\* session held, no Timer pending, and exactly one SIGNED_OUT event with a
\* null session delivered to the subscribers.
C22_SignOutAlwaysClears ==
    [][last'.op = "sign_out"
           => /\ SessionCleared'
              /\ PendingTimers' = 0
              /\ DeliveredOnce("SIGNED_OUT")
              /\ \A i \in 1..Len(last'.events) :
                    last'.events[i].event = "SIGNED_OUT"
                        => last'.events[i].session = None]_vars

\* the callback of the Timer that fired has come to its end in this step
FiringEnds ==
    /\ last'.op = "refresh_token_function"
    /\ last'.done

\* C23: each firing of the auto-refresh Timer callback
\* (refresh_token_function) performs at most one token-exchange call and
\* delivers at most one TOKEN_REFRESHED event, including when the held
\* session is already expired at firing time.
C23_FiringRefreshesOnce ==
    [][FiringEnds
           => /\ last'.exchanges <= 1
              /\ \A k \in 1..Len(state_change_emitters) :
                    Delivered(last'.events, state_change_emitters[k].id,
                              "TOKEN_REFRESHED") <= 1]_vars

\* C24: once sign_out has completed and until the next sign-in, set_session
\* or initialize, no session is held and no Timer is pending, also when a
\* Timer callback had already started its refresh before sign_out ran and
\* finishes afterwards.
C24_SignedOutStaysSignedOut ==
    last.signed_out => (SessionCleared /\ PendingTimers = 0)

====
